---- MODULE Spec2Model ----
(***************************************************************************)
(* State-machine model of app.py, the YouTube playlist cleanup tool.       *)
(*                                                                         *)
(* One run of main() is a sequence of steps, one per external effect (a    *)
(* network call, a row written to audit_log, a widget read).  Between two  *)
(* runs the program counter is "done".  The session state, token.pickle,   *)
(* the audit_log table and the playlists held by the server persist from   *)
(* run to run; everything else is local to a run and is reset when the     *)
(* script starts again.                                                    *)
(***************************************************************************)
EXTENDS Integers, Sequences, FiniteSets, TLC

(***************************************************************************)
(* Bounds of the model.                                                    *)
(***************************************************************************)
MaxTime == 1       \* the clock runs over 0..MaxTime
MaxAudit == 2      \* no removal is started that would exceed this many rows
MaxPages == 2      \* the server answers a listing in at most this many pages

TokenLife == 1     \* ticks for which a fresh access token stays valid
DayLen == 1        \* ticks per calendar day

NoCred == [none |-> TRUE]      \* Python None where a credential is expected
Truncated == [empty |-> TRUE]  \* token.pickle left empty by a write that failed
NoToken == 0                   \* Python None where a page token is expected
NoDate == -1                   \* st.date_input(value=None) left empty
NoCsv == <<>>                  \* no export made in this run
NoFrame == [columns |-> <<>>, rows |-> <<>>]   \* nothing given to st.dataframe

(***************************************************************************)
(* What the server holds: two playlists with the same title, one of two    *)
(* items and one that is empty.  The playlist-item id and the video id of  *)
(* an item differ.                                                         *)
(***************************************************************************)
PlaylistIds == <<"PL1", "PL2">>
PlaylistTitle == [p \in {"PL1", "PL2"} |-> "Mix"]

Item1 == [id |-> "pi1", videoId |-> "v1", title |-> <<"A", "b">>, channel |-> "X"]
Item2 == [id |-> "pi2", videoId |-> "v2", title |-> <<"b">>, channel |-> "Y"]

SearchTerms == {<<>>, <<"a">>, <<"B">>}

Schema == <<"video_id", "title", "link", "channel", "playlist_id", "playlist_name", "removed_date">>

VARIABLES
    now,              \* the wall clock
    session,          \* st.session_state.youtube_credentials, or NoCred
    pickle,           \* the credential in token.pickle, or NoCred
    remote,           \* playlist id -> the items the server holds for it
    audit,            \* the rows of audit_log, oldest first
    pc,               \* position of the current run of main()
    creds,            \* auth.creds
    loaded,           \* what load_credentials() saw and returned in this run
    youtube,          \* TRUE once get_youtube_service() has built the client
    calls,            \* the kinds of API request issued in this run
    requests,         \* the page tokens sent by the listing in progress, in order
    deletes,          \* the ids passed to the delete calls of this run, in order
    errors,           \* the operations that failed in this run
    playlists,        \* get_playlists() result
    playlist_id,
    playlist_name,
    pages,            \* how the server pages the listing being fetched
    items,            \* get_playlist_items() accumulator
    next_page_token,
    batch,            \* the rows of filtered_df picked in selected_videos
    k,                \* loop index into batch
    auditAtStart,     \* Len(audit) when the run started
    shown,            \* the frame given to st.dataframe on the audit page
    csv               \* the text of the export, a header line and one line per row

persistent == <<now, session, pickle, remote, audit>>
runlocal == <<pc, creds, loaded, youtube, calls, requests, deletes, errors, playlists, playlist_id,
              playlist_name, pages, items, next_page_token, batch, k, auditAtStart,
              shown, csv>>
vars == <<persistent, runlocal>>


(***************************************************************************)
(* Credentials.  A credential carries the time its access token expires    *)
(* and whether it has a refresh token.                                     *)
(***************************************************************************)
Credential(expiry, refresh) == [expiry |-> expiry, refresh |-> refresh]

\* creds.expired
Expired(c, t) == t >= c.expiry

\* creds.valid
Valid(c, t) == ~Expired(c, t)

\* creds.refresh(Request()) when the token endpoint answers
Refreshed(c, t) == [c EXCEPT !.expiry = t + TokenLife]

\* save_credentials(): what token.pickle holds afterwards.  The write goes
\* through, or open() truncates the file and the dump fails, or open() itself
\* is refused and the file stays as it was.
SaveOutcomes == {"ok", "truncated", "denied"}

save_credentials(pick, c, save) ==
    CASE save = "ok" -> c
      [] save = "truncated" -> Truncated
      [] OTHER -> pick

\* The branch of load_credentials() taken for a session credential sess, the
\* content pick of token.pickle, at time t.  pickle.load() raises on an empty
\* file.  Lines 40-42 share one try: a failed refresh and a failed save both
\* end in the bare except.
LoadPath(sess, pick, t, refreshOk, save) ==
    IF sess # NoCred THEN "session"
    ELSE IF pick = Truncated THEN "load_raised"
    ELSE IF pick # NoCred /\ Valid(pick, t) THEN "valid"
    ELSE IF pick # NoCred /\ Expired(pick, t) /\ pick.refresh
         THEN (IF ~refreshOk THEN "refresh_failed"
               ELSE IF save = "ok" THEN "refreshed" ELSE "save_failed")
    ELSE "none"

\* load_credentials(): its return value (or raised, when the exception of
\* pickle.load() leaves it) and what it leaves in auth.creds, the session
\* state and token.pickle.
load_credentials(sess, pick, t, refreshOk, save) ==
    LET path == LoadPath(sess, pick, t, refreshOk, save) IN
    CASE path = "session" ->
           [ret |-> TRUE, raised |-> FALSE, creds |-> sess, session |-> sess, pickle |-> pick]
      [] path = "load_raised" ->
           [ret |-> FALSE, raised |-> TRUE, creds |-> NoCred, session |-> sess, pickle |-> pick]
      [] path = "valid" ->
           [ret |-> TRUE, raised |-> FALSE, creds |-> pick, session |-> pick, pickle |-> pick]
      [] path = "refreshed" ->
           [ret |-> TRUE, raised |-> FALSE, creds |-> Refreshed(pick, t),
            session |-> Refreshed(pick, t),
            pickle |-> save_credentials(pick, Refreshed(pick, t), save)]
      [] path = "save_failed" ->
           [ret |-> FALSE, raised |-> FALSE, creds |-> Refreshed(pick, t),
            session |-> Refreshed(pick, t),
            pickle |-> save_credentials(pick, Refreshed(pick, t), save)]
      [] path = "refresh_failed" ->
           [ret |-> FALSE, raised |-> FALSE, creds |-> pick, session |-> sess, pickle |-> pick]
      [] OTHER ->
           [ret |-> FALSE, raised |-> FALSE, creds |-> pick, session |-> sess, pickle |-> pick]

\* authenticate(): flowOk is whether the secrets were read and the consent flow
\* returned; fresh is the credential the flow returned.  Line 59 writes the
\* session state before line 60 saves, inside the try.
authenticate(cur, sess, pick, flowOk, fresh, save) ==
    IF flowOk
    THEN [ret |-> save = "ok", creds |-> fresh, session |-> fresh,
          pickle |-> save_credentials(pick, fresh, save)]
    ELSE [ret |-> FALSE, creds |-> cur, session |-> sess, pickle |-> pick]

\* get_youtube_service(): a client is built when auth.creds is set.
get_youtube_service(c) == c # NoCred

(***************************************************************************)
(* The state after construction: no run has started, the audit log is      *)
(* empty, and token.pickle may be left over from an earlier process.       *)
(***************************************************************************)
NotLoaded == [ran |-> FALSE, ret |-> FALSE, path |-> "none", held |-> FALSE,
              valid |-> FALSE, refresh |-> FALSE]

Init ==
    /\ now = 0
    /\ session = NoCred
    /\ pickle \in {NoCred} \cup {Credential(e, r) : e \in {0, TokenLife}, r \in BOOLEAN}
    /\ remote = [p \in {"PL1", "PL2"} |-> IF p = "PL1" THEN <<Item1, Item2>> ELSE <<>>]
    /\ audit = <<>>
    /\ pc = "done"
    /\ creds = NoCred
    /\ loaded = NotLoaded
    /\ youtube = FALSE
    /\ calls = {}
    /\ requests = <<>>
    /\ deletes = <<>>
    /\ errors = {}
    /\ playlists = <<>>
    /\ playlist_id = ""
    /\ playlist_name = ""
    /\ pages = <<>>
    /\ items = <<>>
    /\ next_page_token = NoToken
    /\ batch = <<>>
    /\ k = 0
    /\ auditAtStart = 0
    /\ shown = NoFrame
    /\ csv = NoCsv

\* The locals of a run as the script finds them when it starts.
FreshRun ==
    /\ creds' = NoCred
    /\ loaded' = NotLoaded
    /\ youtube' = FALSE
    /\ calls' = {}
    /\ requests' = <<>>
    /\ deletes' = <<>>
    /\ errors' = {}
    /\ playlists' = <<>>
    /\ playlist_id' = ""
    /\ playlist_name' = ""
    /\ pages' = <<>>
    /\ items' = <<>>
    /\ next_page_token' = NoToken
    /\ batch' = <<>>
    /\ k' = 0
    /\ auditAtStart' = Len(audit)
    /\ shown' = NoFrame
    /\ csv' = NoCsv

\* The steps that read the clock: load_credentials() and authenticate() (the
\* expiry of a credential) and store_audit() (datetime.now()).
ReadsClock == {"done", "unauth", "storing"}

\* Time passes.  The clock moves at any moment; a move matters only to the next
\* step that reads the clock, so it is taken right before such a step.
Tick ==
    /\ now < MaxTime
    /\ pc \in ReadsClock
    /\ now' = now + 1
    /\ UNCHANGED <<session, pickle, remote, audit, runlocal>>

\* A new browser session starts between two runs: the session state is empty.
NewSession ==
    /\ pc = "done"
    /\ session # NoCred
    /\ session' = NoCred
    /\ UNCHANGED <<now, pickle, remote, audit, runlocal>>

\* main() starts: init_db(), auth = YouTubeAuth().
StartRun ==
    /\ pc = "done"
    /\ pc' = "load"
    /\ FreshRun
    /\ UNCHANGED persistent

\* main() returns, or the script is stopped for a rerun: the locals are gone.
Return ==
    /\ pc = "exit"
    /\ pc' = "done"
    /\ FreshRun
    /\ UNCHANGED persistent

\* main(): if not auth.load_credentials().  An exception of pickle.load() is
\* not caught and ends the run.
LoadCredentials ==
    /\ pc = "load"
    /\ \E refreshOk \in BOOLEAN, save \in SaveOutcomes :
         LET r == load_credentials(session, pickle, now, refreshOk, save)
             path == LoadPath(session, pickle, now, refreshOk, save)
             seen == IF session # NoCred THEN session ELSE pickle
             held == seen # NoCred /\ seen # Truncated
         IN  /\ creds' = r.creds
             /\ session' = r.session
             /\ pickle' = r.pickle
             /\ loaded' = [ran |-> TRUE, ret |-> r.ret, path |-> path,
                           held |-> held,
                           valid |-> held /\ Valid(seen, now),
                           refresh |-> held /\ seen.refresh]
             /\ errors' = CASE path = "refresh_failed" -> errors \cup {"refresh"}
                            [] path = "save_failed" -> errors \cup {"save"}
                            [] path = "load_raised" -> errors \cup {"pickle"}
                            [] OTHER -> errors
             /\ pc' = IF r.raised THEN "exit" ELSE IF r.ret THEN "service" ELSE "unauth"
    /\ UNCHANGED <<now, remote, audit, youtube, calls, requests, deletes, playlists,
                   playlist_id, playlist_name, pages, items, next_page_token, batch, k,
                   auditAtStart, shown, csv>>

\* main(): the branch taken when load_credentials() returned False.  The run
\* ends either way; a successful authenticate() asks for a rerun.
Unauthenticated ==
    /\ pc = "unauth"
    /\ \E click \in BOOLEAN, flowOk \in BOOLEAN, refresh \in BOOLEAN, save \in SaveOutcomes :
         IF click
         THEN LET r == authenticate(creds, session, pickle, flowOk,
                                    Credential(now + TokenLife, refresh), save)
              IN  /\ creds' = r.creds
                  /\ session' = r.session
                  /\ pickle' = r.pickle
                  /\ errors' = IF r.ret THEN errors ELSE errors \cup {"auth"}
         ELSE UNCHANGED <<creds, session, pickle, errors>>
    /\ pc' = "exit"
    /\ UNCHANGED <<now, remote, audit, loaded, youtube, calls, requests, deletes,
                   playlists, playlist_id, playlist_name, pages, items, next_page_token,
                   batch, k, auditAtStart, shown, csv>>

(***************************************************************************)
(* The server's side of the listing calls.                                 *)
(***************************************************************************)
RECURSIVE Concat(_)
Concat(pgs) == IF pgs = <<>> THEN <<>> ELSE Head(pgs).items \o Concat(Tail(pgs))

\* Page i of n carries the cursor that leads to page i + 1; the last carries none.
Cursor(i, n) == IF i < n THEN i ELSE NoToken

Slices(s) == {SubSeq(s, a, b) : a \in 1..(Len(s) + 1), b \in 0..Len(s)}

\* Every way the server may cut the listing s into 1..MaxPages pages, empty
\* pages included.
Pagings(s) ==
    {pgs \in UNION {[1..n -> [items : Slices(s), nextPageToken : 0..MaxPages]] : n \in 1..MaxPages} :
        /\ \A i \in 1..Len(pgs) : pgs[i].nextPageToken = Cursor(i, Len(pgs))
        /\ Concat(pgs) = s}

\* The response to playlistItems().list(pageToken = token).
ListResponse(pgs, token) == pgs[token + 1]

\* The response to playlists().list(mine = True).
PlaylistsResponse(rem) ==
    [i \in 1..Len(PlaylistIds) |->
        [id |-> PlaylistIds[i], title |-> PlaylistTitle[PlaylistIds[i]],
         count |-> Len(rem[PlaylistIds[i]])]]

\* The server after playlistItems().delete(id) succeeded.
SelectSeq2(s, id) == SelectSeq(s, LAMBDA it : it.id # id)
Deleted(rem, id) == [p \in DOMAIN rem |-> SelectSeq2(rem[p], id)]

(***************************************************************************)
(* get_playlists(), and the playlist picked in the select box.             *)
(***************************************************************************)
\* f"{p['title']} ({p['count']} videos)"
Option(p) == <<p.title, p.count>>

playlist_options(pls) == [i \in 1..Len(pls) |-> Option(pls[i])]

\* list.index(x): the first position holding x
IndexOf(seq, x) == CHOOSE i \in 1..Len(seq) : seq[i] = x /\ \A j \in 1..(i - 1) : seq[j] # x

\* get_playlists(): the list built from the response, empty when the call raised.
get_playlists(rem, ok) == IF ok THEN PlaylistsResponse(rem) ELSE <<>>

(***************************************************************************)
(* get_playlist_items(): one pass of the while loop per step.              *)
(***************************************************************************)
\* A loop that keeps the last page only.
KeepLastPage(acc, response) == response.items

\* items.extend(response["items"])
Extend(acc, response) == acc \o response.items

\* if not next_page_token: break
LoopEnds(token) == token = NoToken

\* A table offered whatever the listing returned.
AlwaysOffers(its) == TRUE

\* if items:
OffersRemoval(its) == its # <<>>

(***************************************************************************)
(* The data frame, the filters and the selection.                          *)
(***************************************************************************)
Link(videoId) == <<"https://youtube.com/watch?v=", videoId>>

\* pd.DataFrame([{...} for item in items])
DataFrame(its) ==
    [i \in 1..Len(its) |->
        [video_id |-> its[i].id, title |-> its[i].title,
         channel |-> its[i].channel, link |-> Link(its[i].videoId)]]

Lower(ch) == CASE ch = "A" -> "a" [] ch = "B" -> "b" [] ch = "C" -> "c" [] OTHER -> ch

LowerAll(s) == [i \in 1..Len(s) |-> Lower(s[i])]

\* Series.str.contains(term, case=False) for a literal term
Contains(title, term) ==
    \E a \in 1..(Len(title) + 1) :
        /\ a + Len(term) - 1 <= Len(title)
        /\ SubSeq(LowerAll(title), a, a + Len(term) - 1) = LowerAll(term)

\* The index of filtered_df.
FilteredIndex(df, search_term, channel_filter) ==
    {i \in 1..Len(df) :
        /\ search_term # <<>> => Contains(df[i].title, search_term)
        /\ channel_filter # {} => df[i].channel \in channel_filter}

Channels(df) == {df[i].channel : i \in 1..Len(df)}

\* What st.multiselect may return over the options S: distinct options in the
\* order they were picked.
Selections(S) ==
    {sel \in UNION {[1..n -> S] : n \in 0..Cardinality(S)} :
        \A i, j \in 1..Len(sel) : i # j => sel[i] # sel[j]}

\* filtered_df.loc[selected_videos, 'video_id'].tolist()
VideoIds(rows) == [i \in 1..Len(rows) |-> rows[i].video_id]

(***************************************************************************)
(* The audit log.                                                          *)
(***************************************************************************)
\* The tuple video_data built for one selected row.
VideoData(row, pid, pname, t) ==
    [video_id |-> row.video_id, title |-> row.title, link |-> row.link,
     channel |-> row.channel, playlist_id |-> pid, playlist_name |-> pname,
     removed_date |-> t]

\* A log that keeps the last row only.
ReplaceLog(log, video_data) == <<video_data>>

\* store_audit(video_data): INSERT INTO audit_log
store_audit(log, video_data) == Append(log, video_data)

\* A removal that goes to the delete calls without writing the log.
SkipAudit == "removing"

\* The phase main() enters once the removal is confirmed.
AfterConfirm == "storing"

\* A loop without the try/except: the first failure ends it.
AbortOnError(i, n, ok) == IF ok THEN i + 1 ELSE n + 1

\* remove_videos(): the index the for loop moves to after the delete call for
\* entry i of n, which returned (ok) or raised.
NextDelete(i, n, ok) == i + 1

\* An except branch that clears the session state.
ClearSession(sess) == NoCred

\* What an except branch that reports an error leaves in the session state.
SessionAfterError(sess) == sess

\* pd.read_sql_query("SELECT * FROM audit_log", conn)
ReadAudit(log) == [columns |-> Schema, rows |-> log]

\* pd.to_datetime(removed_date).dt.date
DateOf(t) == t \div DayLen

\* audit_df['date'] = ...; audit_df = audit_df[audit_df['date'] == date_filter]
FilterByDate(df, date_filter) ==
    LET cols == df.columns \o <<"date">>
        withDate(r) == [c \in {cols[j] : j \in 1..Len(cols)} |->
                           IF c = "date" THEN DateOf(r.removed_date) ELSE r[c]]
    IN  [columns |-> cols,
         rows |-> SelectSeq([i \in 1..Len(df.rows) |-> withDate(df.rows[i])],
                            LAMBDA r : r["date"] = date_filter)]

\* audit_df.to_csv(index=False): the header line, then one line per row
to_csv(df) ==
    <<df.columns>> \o
    [i \in 1..Len(df.rows) |-> [j \in 1..Len(df.columns) |-> df.rows[i][df.columns[j]]]]


(***************************************************************************)
(* main() once load_credentials() has returned True.                       *)
(***************************************************************************)
\* youtube = auth.get_youtube_service(); page = st.sidebar.radio(...)
Navigate ==
    /\ pc = "service"
    /\ youtube' = get_youtube_service(creds)
    /\ \E page \in {"Playlist Cleanup", "Audit Log"} :
         pc' = IF page = "Playlist Cleanup" THEN "playlists" ELSE "auditpage"
    /\ UNCHANGED <<persistent, creds, loaded, calls, requests, deletes, errors, playlists,
                   playlist_id, playlist_name, pages, items, next_page_token, batch, k,
                   auditAtStart, shown, csv>>

\* playlists = get_playlists(youtube), then the select box.  The server fixes
\* how it will page the listing of the playlist that was picked.
GetPlaylists ==
    /\ pc = "playlists"
    /\ calls' = calls \cup {"playlists.list"}
    /\ \E ok \in BOOLEAN :
         LET pls == get_playlists(remote, ok) IN
         /\ playlists' = pls
         /\ errors' = IF ok THEN errors ELSE errors \cup {"playlists"}
         /\ session' = IF ok THEN session ELSE SessionAfterError(session)
         /\ IF pls # <<>>
            THEN \E choice \in 1..Len(pls) :
                   LET selected_playlist == playlist_options(pls)[choice]
                       playlist_index == IndexOf(playlist_options(pls), selected_playlist)
                   IN  /\ playlist_id' = pls[playlist_index].id
                       /\ playlist_name' = pls[playlist_index].title
                       /\ pages' \in Pagings(remote[pls[playlist_index].id])
                       /\ pc' = "items"
            ELSE /\ pc' = "exit"
                 /\ UNCHANGED <<playlist_id, playlist_name, pages>>
    /\ UNCHANGED <<now, pickle, remote, audit, creds, loaded, youtube, requests,
                   deletes, items, next_page_token, batch, k, auditAtStart, shown, csv>>

\* One pass of the while loop of get_playlist_items().
FetchPage ==
    /\ pc = "items"
    /\ calls' = calls \cup {"playlistItems.list"}
    /\ requests' = Append(requests, next_page_token)
    /\ \E ok \in BOOLEAN :
         IF ok
         THEN LET response == ListResponse(pages, next_page_token) IN
              /\ items' = Extend(items, response)
              /\ next_page_token' = response.nextPageToken
              /\ pc' = IF LoopEnds(response.nextPageToken) THEN "fetched" ELSE "items"
              /\ UNCHANGED <<errors, session>>
         ELSE /\ errors' = errors \cup {"items"}
              /\ session' = SessionAfterError(session)
              /\ pc' = "fetched"
              /\ UNCHANGED <<items, next_page_token>>
    /\ UNCHANGED <<now, pickle, remote, audit, creds, loaded, youtube, deletes,
                   playlists, playlist_id, playlist_name, pages, batch, k, auditAtStart,
                   shown, csv>>

\* get_playlist_items() returns; main() goes on to the table when the list is
\* not empty.  The listing is over on the server's side.
ReturnItems ==
    /\ pc = "fetched"
    /\ pc' = IF OffersRemoval(items) THEN "select" ELSE "exit"
    /\ pages' = <<>>
    /\ requests' = <<>>
    /\ UNCHANGED <<persistent, creds, loaded, youtube, calls, deletes, errors, playlists,
                   playlist_id, playlist_name, items, next_page_token, batch, k,
                   auditAtStart, shown, csv>>

\* The filters, the multiselect and the button.  The removal goes ahead when
\* the button was clicked with a non-empty selection: st.warning() returns an
\* element object, which is true.
SelectVideos ==
    /\ pc = "select"
    /\ LET df == DataFrame(items) IN
       \E search_term \in SearchTerms, channel_filter \in SUBSET Channels(df),
          click \in BOOLEAN :
         \E selected_videos \in Selections(FilteredIndex(df, search_term, channel_filter)) :
            IF click /\ selected_videos # <<>>
            THEN /\ Len(audit) + Len(selected_videos) <= MaxAudit
                 /\ batch' = [i \in 1..Len(selected_videos) |-> df[selected_videos[i]]]
                 /\ k' = 1
                 /\ pc' = AfterConfirm
            ELSE /\ pc' = "exit"
                 /\ UNCHANGED <<batch, k>>
    /\ UNCHANGED <<persistent, creds, loaded, youtube, calls, requests, deletes, errors,
                   playlists, playlist_id, playlist_name, pages, items, next_page_token,
                   auditAtStart, shown, csv>>

\* One pass of the loop over selected_videos: store_audit(video_data).  A
\* database error is not caught and ends the run.
StoreAudit ==
    /\ pc = "storing"
    /\ \E ok \in BOOLEAN :
         IF ok
         THEN /\ audit' = store_audit(audit, VideoData(batch[k], playlist_id, playlist_name, now))
              /\ k' = IF k < Len(batch) THEN k + 1 ELSE 1
              /\ pc' = IF k < Len(batch) THEN "storing" ELSE "removing"
              /\ UNCHANGED errors
         ELSE /\ errors' = errors \cup {"database"}
              /\ pc' = "exit"
              /\ UNCHANGED <<audit, k>>
    /\ UNCHANGED <<now, session, pickle, remote, creds, loaded, youtube, calls,
                   requests, deletes, playlists, playlist_id, playlist_name, pages, items,
                   next_page_token, batch, auditAtStart, shown, csv>>

\* One pass of the loop of remove_videos(): the delete call for video_ids[k].
RemoveVideo ==
    /\ pc = "removing"
    /\ LET video_ids == VideoIds(batch) IN
       /\ calls' = calls \cup {"playlistItems.delete"}
       /\ deletes' = Append(deletes, video_ids[k])
       /\ \E ok \in BOOLEAN :
            /\ remote' = IF ok THEN Deleted(remote, video_ids[k]) ELSE remote
            /\ errors' = IF ok THEN errors ELSE errors \cup {"delete"}
            /\ session' = IF ok THEN session ELSE SessionAfterError(session)
            /\ k' = NextDelete(k, Len(video_ids), ok)
            /\ pc' = IF NextDelete(k, Len(video_ids), ok) <= Len(video_ids)
                     THEN "removing" ELSE "exit"
    /\ UNCHANGED <<now, pickle, audit, creds, loaded, youtube, requests, playlists,
                   playlist_id, playlist_name, pages, items, next_page_token, batch,
                   auditAtStart, shown, csv>>

\* The audit page: read the table, filter by date, show, export.
AuditPage ==
    /\ pc = "auditpage"
    /\ LET audit_df == ReadAudit(audit) IN
       IF audit_df.rows # <<>>
       THEN \E date_filter \in {NoDate} \cup 0..(DateOf(MaxTime) + 1), export \in BOOLEAN :
              LET view == IF date_filter # NoDate
                          THEN FilterByDate(audit_df, date_filter) ELSE audit_df
              IN  /\ shown' = view
                  /\ csv' = IF export THEN to_csv(view) ELSE NoCsv
       ELSE UNCHANGED <<shown, csv>>
    /\ pc' = "exit"
    /\ UNCHANGED <<persistent, creds, loaded, youtube, calls, requests, deletes, errors,
                   playlists, playlist_id, playlist_name, pages, items, next_page_token,
                   batch, k, auditAtStart>>

Next ==
    \/ Tick
    \/ NewSession
    \/ StartRun
    \/ Return
    \/ LoadCredentials
    \/ Unauthenticated
    \/ Navigate
    \/ GetPlaylists
    \/ FetchPage
    \/ ReturnItems
    \/ SelectVideos
    \/ StoreAudit
    \/ RemoveVideo
    \/ AuditPage

Spec == Init /\ [][Next]_vars


(***************************************************************************)
(* Properties.                                                             *)
(***************************************************************************)
IsPrefix(s, t) == Len(s) <= Len(t) /\ SubSeq(t, 1, Len(s)) = s

RunRows == SubSeq(audit, auditAtStart + 1, Len(audit))

OnServer(id) == \E p \in DOMAIN remote : \E i \in 1..Len(remote[p]) : remote[p][i].id = id

\* C1: in a run where neither the session state nor token.pickle holds a
\* credential, or the credential held is expired and has no refresh token,
\* load_credentials() returns False, no service is built and no API call is
\* issued.
C1_ReauthorizationRequired ==
    (loaded.ran /\ (~loaded.held \/ (~loaded.valid /\ ~loaded.refresh)))
        => (~loaded.ret /\ ~youtube /\ calls = {})

\* C2: a listing none of whose requests failed has asked for the pages in
\* order, the first without a cursor and each later one with the cursor of the
\* page before, and returns the items of the pages joined in page order; while
\* the loop runs it has made fewer requests than there are pages, so it ends.
C2_ListingComplete ==
    /\ pc = "items" =>
          /\ Len(requests) < Len(pages)
          /\ next_page_token = Len(requests)
    /\ (pc = "fetched" /\ "items" \notin errors) =>
          /\ requests = [i \in 1..Len(pages) |-> i - 1]
          /\ items = Concat(pages)

C2_Witness ==
    /\ pc = "fetched"
    /\ "items" \notin errors
    /\ Len(pages) >= 2
    /\ Len(items) >= 2
    /\ \A i \in 1..Len(pages) : pages[i].items # <<>>

\* C3: a removal of N selected items makes at most N delete calls and writes
\* at most N audit rows, and every id of the batch gets its delete call
\* whichever of the calls raised.
C3_BatchRemoval ==
    /\ Len(deletes) <= Len(batch)
    /\ Len(RunRows) <= Len(batch)
    /\ pc = "removing" => deletes = SubSeq(VideoIds(batch), 1, k - 1)
    /\ (pc = "exit" /\ deletes # <<>>) => deletes = VideoIds(batch)

\* The first delete call of a batch of two failed, the second was made and
\* went through.
C3_Witness ==
    /\ pc = "exit"
    /\ Len(batch) = 2
    /\ deletes = VideoIds(batch)
    /\ "delete" \in errors
    /\ OnServer(batch[1].video_id)
    /\ ~OnServer(batch[2].video_id)

\* C4: an export has one line per record shown and the columns of the
\* audit_log schema, with or without a date filter.
C4_ExportMatchesSchema ==
    csv # NoCsv => (Len(csv) - 1 = Len(shown.rows) /\ csv[1] = Schema)

\* C5: store_audit() has run for every selected item before the first delete
\* call of the batch, so every delete call finds an audit row of this run for
\* its item.
C5_AuditBeforeDelete ==
    /\ pc = "removing" =>
          /\ Len(RunRows) = Len(batch)
          /\ \A i \in 1..Len(batch) : RunRows[i].video_id = batch[i].video_id
    /\ \A i \in 1..Len(deletes) :
          \E j \in 1..Len(RunRows) : RunRows[j].video_id = deletes[i]

C5_Witness ==
    /\ pc = "removing"
    /\ k = 1
    /\ deletes = <<>>
    /\ Len(batch) = 2
    /\ Len(RunRows) = 2

\* C6: the credential a run builds the service with was valid when
\* load_credentials() examined it, or was refreshed in that run and written to
\* the session state and to token.pickle.
C6_ValidityCheckedOnUse ==
    youtube => \/ loaded.valid
               \/ (loaded.path = "refreshed" /\ session = creds /\ pickle = creds)

FailedCalls == {"playlists", "items", "delete"}

\* C7 as stated: once an operation has failed in a run, the session state
\* holds no credential.
C7_ErrorClearsSession ==
    (errors \cap ({"auth", "refresh"} \cup FailedCalls) # {}) => session = NoCred

\* C7 amended: a failed playlist fetch, item fetch or delete leaves the session
\* state holding the credential the run uses, and load_credentials() returns
\* True for it.
C7_ErrorKeepsSession ==
    (errors \cap FailedCalls # {}) =>
        /\ session # NoCred
        /\ session = creds
        /\ \A refreshOk \in BOOLEAN, save \in SaveOutcomes :
              load_credentials(session, pickle, now, refreshOk, save).ret

C7_Witness ==
    /\ pc = "exit"
    /\ "delete" \in errors
    /\ session # NoCred

\* C8: a listing whose first page has no items and no cursor returns an empty
\* list; with an empty list no selection and no removal is offered, no audit
\* row is written and no delete call is issued.
C8_EmptyPlaylist ==
    /\ (pc = "fetched" /\ "items" \notin errors /\ Len(pages) = 1
           /\ pages[1].items = <<>> /\ pages[1].nextPageToken = NoToken) => items = <<>>
    /\ pc \in {"select", "storing", "removing"} => items # <<>>
    /\ items = <<>> => (batch = <<>> /\ deletes = <<>> /\ RunRows = <<>>)

C8_Witness ==
    /\ pc = "exit"
    /\ "playlistItems.list" \in calls
    /\ errors = {}
    /\ items = <<>>

\* C9: the video_id column of an audit row holds the video id of the item, the
\* one in the row's link.
C9_AuditHoldsVideoId ==
    \A j \in 1..Len(audit) : audit[j].video_id = audit[j].link[2]

\* C10: every delete call issued in a run has an audit row with the item's id
\* and the id of the playlist picked, and a step only ever appends to the
\* audit log: no row is removed or changed, whether its delete call failed or
\* not.  With the log only growing, the rows of earlier runs stay.
C10_AuditCoversRemovals ==
    [][ /\ IsPrefix(audit, audit')
        /\ \A i \in 1..Len(deletes') :
              \E j \in 1..Len(audit') :
                 /\ audit'[j].video_id = deletes'[i]
                 /\ audit'[j].playlist_id = playlist_id' ]_vars

\* A delete call failed: the row is in the log and the item is still on the
\* server.
C10_Witness ==
    /\ pc = "exit"
    /\ "delete" \in errors
    /\ \E j \in 1..Len(audit) :
          /\ audit[j].video_id \in {deletes[i] : i \in 1..Len(deletes)}
          /\ \E i \in 1..Len(remote[audit[j].playlist_id]) :
                remote[audit[j].playlist_id][i].id = audit[j].video_id

====
